---------------------------- MODULE Spec2Model ----------------------------
(***************************************************************************)
(* The CRM GraphQL mutations of crm/schema.py over the tables of           *)
(* crm/models.py.  Every ORM statement is one atomic step of the request   *)
(* that issues it; a request outside transaction.atomic commits each       *)
(* statement as it is issued (Django autocommit), a request inside it      *)
(* commits or rolls back when the block is left.                           *)
(*                                                                         *)
(*   Spec      one request at a time (any mutation) interleaved with admin *)
(*             price edits and with readers, who see the committed tables. *)
(*   SpecRace  two concurrent requests creating customers.                 *)
(*   SpecBulk  one request at a time creating customers, singly or in      *)
(*             batches whose records may carry phones.                     *)
(***************************************************************************)
EXTENDS Integers, Sequences, FiniteSets

(* ------------------------------ bounds -------------------------------- *)
MaxBatch == 3
MaxRaceBatch == 2
MaxProducts == 2
MaxOrders == 2
MaxItems == 2
MaxPrice == 2

(* ------------------------------ inputs -------------------------------- *)
Procs == {"p1", "p2"}
Emails == {"a@x.com", "b@x.com"}

NoPhone == << >>
PhoneLocal == <<"1","2","3","-","4","5","6","-","7","8","9","0">>
PhoneLetters == <<"1","2","a","4","5">>
PhoneInputs == {NoPhone, PhoneLocal, PhoneLetters}
BulkPhoneInputs == {NoPhone, PhoneLetters}

Digits == {"0","1","2","3","4","5","6","7","8","9"}
Seps == {"-", ".", " "}

(* re.match(r'^\+?\d{1,4}[-.\s]?\d{1,4}[-.\s]?\d{1,9}$', s): some split of *)
(* s into the optional sign, three digit groups and optional separators.   *)
AllIn(s, from, to, class) == \A k \in from..to : s[k] \in class

PhoneMatches(s) ==
    \E plus \in 0..1, n1 \in 1..4, s1 \in 0..1, n2 \in 1..4, s2 \in 0..1, n3 \in 1..9 :
        /\ Len(s) = plus + n1 + s1 + n2 + s2 + n3
        /\ plus = 1 => s[1] = "+"
        /\ AllIn(s, plus + 1, plus + n1, Digits)
        /\ s1 = 1 => s[plus + n1 + 1] \in Seps
        /\ AllIn(s, plus + n1 + s1 + 1, plus + n1 + s1 + n2, Digits)
        /\ s2 = 1 => s[plus + n1 + s1 + n2 + 1] \in Seps
        /\ AllIn(s, plus + n1 + s1 + n2 + s2 + 1, Len(s), Digits)

(* `input.phone and not re.match(...)`: an absent or empty phone is never  *)
(* matched against the pattern.                                            *)
PhoneRejected(phone) == phone # NoPhone /\ ~PhoneMatches(phone)

(* ------------------------------- state -------------------------------- *)
VARIABLES
    customers,      \* committed Customer rows: set of [id, email, phone]
    products,       \* committed Product rows: id -> [price, stock]
    orders,         \* committed Order rows: id -> [customer, order_date, total_amount]
    orderItems,     \* committed OrderItem rows: set of [id, order, product, quantity, price_at_order]
    pc,             \* per request: position in its mutate()
    call,           \* per request: the mutation and its input
    result,         \* per request: what the last mutate() returned or raised
    bulk,           \* per request: locals and transaction of BulkCreateCustomers.mutate
    ord,            \* per request: locals of CreateOrder.mutate
    before          \* per request: Order and OrderItem tables when the call began

vars == <<customers, products, orders, orderItems, pc, call, result, bulk, ord, before>>
store == <<customers, products, orders, orderItems>>

NoCall == [op |-> "none"]
NoBulk == [idx |-> 0, created |-> << >>, errors |-> << >>, pending |-> {},
           needs_rollback |-> FALSE]
NoOrd == [selected |-> << >>, total_amount |-> 0, order |-> 0]
NoBefore == [orders |-> << >>, orderItems |-> {}]

Init ==
    /\ customers = {}
    /\ products = << >>
    /\ orders = << >>
    /\ orderItems = {}
    /\ pc = [p \in Procs |-> "idle"]
    /\ call = [p \in Procs |-> NoCall]
    /\ result = [p \in Procs |-> "none"]
    /\ bulk = [p \in Procs |-> NoBulk]
    /\ ord = [p \in Procs |-> NoOrd]
    /\ before = [p \in Procs |-> NoBefore]

(* A request slot is free when no mutate() is running in it.              *)
Free(p) == pc[p] \in {"idle", "done"}

(* Rows written inside transaction.atomic blocks that are still open.     *)
PendingOf(p) == bulk[p].pending
PendingOthers(p) == UNION {bulk[q].pending : q \in Procs \ {p}}
AllPending == UNION {bulk[q].pending : q \in Procs}

(* uuid.uuid4 as primary key default: a value no row carries yet.         *)
FreshCustomerId ==
    CHOOSE n \in 1..(Cardinality(customers) + Cardinality(AllPending) + 1) :
        /\ n \notin {c.id : c \in customers \cup AllPending}
        /\ \A m \in 1..(n - 1) : m \in {c.id : c \in customers \cup AllPending}

(* Customer.objects.filter(email=...).exists() as seen by request p: the   *)
(* committed rows and the rows of p's own open transaction.               *)
EmailExists(p, email) == \E c \in customers \cup PendingOf(p) : c.email = email

(* The column declared without unique=True: no INSERT is refused.          *)
UniqueViolation_NoIndex(p, email) == FALSE

(* email = models.EmailField(unique=True): the unique index refuses a row  *)
(* whose email a visible row already carries.                              *)
UniqueViolation(p, email) == \E c \in customers \cup PendingOf(p) : c.email = email

(* The unique index makes an INSERT wait for an open transaction that has  *)
(* inserted the same email.                                                *)
UniqueWait(p, email) == \E c \in PendingOthers(p) : c.email = email

(* phone=input.phone or None: NoPhone stands for both None and ''.        *)
CustomerRow(email, phone) == [id |-> FreshCustomerId, email |-> email, phone |-> phone]

(* A mutate() is entered with its input; the locals of the previous call   *)
(* in this slot are gone.                                                  *)
Begin(p, c, b, o) ==
    /\ call' = [call EXCEPT ![p] = c]
    /\ before' = [before EXCEPT ![p] = [orders |-> orders, orderItems |-> orderItems]]
    /\ bulk' = [bulk EXCEPT ![p] = b]
    /\ ord' = [ord EXCEPT ![p] = o]

Return(p, r) ==
    /\ pc' = [pc EXCEPT ![p] = "done"]
    /\ result' = [result EXCEPT ![p] = r]

(* ----------------------- CreateCustomer.mutate ------------------------ *)
(* Phone validation, then the duplicate-email query.                       *)
CreateCustomer_Check(p, email, phone) ==
    /\ Free(p)
    /\ Begin(p, [op |-> "CreateCustomer", email |-> email, phone |-> phone], NoBulk, NoOrd)
    /\ IF PhoneRejected(phone)
         THEN Return(p, "InvalidFormat")
         ELSE IF EmailExists(p, email)
           THEN Return(p, "DuplicateEmail")
           ELSE /\ pc' = [pc EXCEPT ![p] = "cc_create"]
                /\ result' = [result EXCEPT ![p] = "none"]
    /\ UNCHANGED store

(* Customer.objects.create(...) in autocommit, inside try/except.          *)
CreateCustomer_Create(p) ==
    /\ pc[p] = "cc_create"
    /\ \/ /\ ~UniqueViolation(p, call[p].email)
          /\ ~UniqueWait(p, call[p].email)
          /\ customers' = customers \cup {CustomerRow(call[p].email, call[p].phone)}
          /\ Return(p, "ok")
       \/ /\ UniqueViolation(p, call[p].email)
          /\ UNCHANGED customers
          /\ Return(p, "UnexpectedStoreFailure")
       \/ /\ UNCHANGED customers
          /\ Return(p, "UnexpectedStoreFailure")
    /\ UNCHANGED <<products, orders, orderItems, call, bulk, ord, before>>

(* --------------------- BulkCreateCustomers.mutate --------------------- *)
BulkRecords == [email : Emails, phone : BulkPhoneInputs]
RECURSIVE SeqsUpTo(_, _)
SeqsUpTo(S, n) ==
    IF n = 0 THEN {<< >>}
    ELSE LET shorter == SeqsUpTo(S, n - 1)
         IN  shorter \cup {Append(q, x) : q \in {r \in shorter : Len(r) = n - 1}, x \in S}
Batches == SeqsUpTo(BulkRecords, MaxBatch)
PlainBatches(emails) == SeqsUpTo([email : emails, phone : {NoPhone}], MaxRaceBatch)

BulkError(b, kind, email) ==
    [b EXCEPT !.errors = Append(@, [kind |-> kind, email |-> email]), !.idx = @ + 1]

(* @transaction.atomic is entered: the loop starts at the first record.    *)
BulkCreateCustomers_Enter(p, input) ==
    /\ Free(p)
    /\ Begin(p, [op |-> "BulkCreateCustomers", input |-> input],
             [NoBulk EXCEPT !.idx = 1], NoOrd)
    /\ pc' = [pc EXCEPT ![p] = "bulk_check"]
    /\ result' = [result EXCEPT ![p] = "none"]
    /\ UNCHANGED store

(* The two validations of one record.  Once a statement has failed inside  *)
(* the atomic block the connection refuses further queries until the block *)
(* is left, and the refusal is caught by the record's except clause.       *)
BulkCreateCustomers_Check(p) ==
    /\ pc[p] = "bulk_check"
    /\ bulk[p].idx <= Len(call[p].input)
    /\ LET rec == call[p].input[bulk[p].idx]
       IN  IF bulk[p].needs_rollback
             THEN /\ bulk' = [bulk EXCEPT ![p] = BulkError(@, "Failed", rec.email)]
                  /\ UNCHANGED pc
             ELSE IF EmailExists(p, rec.email)
               THEN /\ bulk' = [bulk EXCEPT ![p] = BulkError(@, "DuplicateEmail", rec.email)]
                    /\ UNCHANGED pc
               ELSE IF PhoneRejected(rec.phone)
                 THEN /\ bulk' = [bulk EXCEPT ![p] = BulkError(@, "InvalidFormat", rec.email)]
                      /\ UNCHANGED pc
                 ELSE /\ pc' = [pc EXCEPT ![p] = "bulk_create"]
                      /\ UNCHANGED bulk
    /\ UNCHANGED <<store, call, result, ord, before>>

(* Customer.objects.create(...) inside the atomic block: the row is        *)
(* written into the open transaction; a failed INSERT marks the            *)
(* transaction for rollback and is caught by the record's except clause.   *)
BulkCreateCustomers_Create(p) ==
    /\ pc[p] = "bulk_create"
    /\ LET rec == call[p].input[bulk[p].idx]
           row == CustomerRow(rec.email, rec.phone)
       IN  \/ /\ ~UniqueViolation(p, rec.email)
              /\ ~UniqueWait(p, rec.email)
              /\ bulk' = [bulk EXCEPT ![p] =
                            [@ EXCEPT !.pending = @ \cup {row},
                                      !.created = Append(@, row),
                                      !.idx = @ + 1]]
           \/ /\ bulk' = [bulk EXCEPT ![p] =
                            [BulkError(@, "Failed", rec.email) EXCEPT !.needs_rollback = TRUE]]
    /\ pc' = [pc EXCEPT ![p] = "bulk_check"]
    /\ UNCHANGED <<store, call, result, ord, before>>

(* The loop is over and the atomic block is left by the return statement:  *)
(* the transaction commits, or rolls back when it was marked.              *)
AtomicExit(committed, b) ==
    IF b.needs_rollback THEN committed ELSE committed \cup b.pending

BulkCreateCustomers_Return(p) ==
    /\ pc[p] = "bulk_check"
    /\ bulk[p].idx > Len(call[p].input)
    /\ customers' = AtomicExit(customers, bulk[p])
    /\ bulk' = [bulk EXCEPT ![p] = [@ EXCEPT !.pending = {}, !.needs_rollback = FALSE]]
    /\ Return(p, "ok")
    /\ UNCHANGED <<products, orders, orderItems, call, ord, before>>

(* ------------------------ CreateProduct.mutate ------------------------ *)
PriceInputs == 0..MaxPrice
StockInputs == (0 - 1)..0

(* uuid.uuid4 as primary key default: a value no row carries yet.         *)
FreshId(used) == CHOOSE n \in 1..(Cardinality(used) + 1) :
                    n \notin used /\ \A m \in 1..(n - 1) : m \in used

(* The price check written as `input.price < 0`.                          *)
PriceRejected_ZeroAllowed(price) == price < 0

PriceRejected(price) == price <= 0
StockRejected(stock) == stock < 0

(* stock=input.stock or 0                                                  *)
ProductRow(price, stock) == [price |-> price, stock |-> IF stock # 0 THEN stock ELSE 0]

Insert(table, id, row) ==
    [k \in DOMAIN table \cup {id} |-> IF k = id THEN row ELSE table[k]]

CreateProduct(p, price, stock) ==
    /\ Free(p)
    /\ Cardinality(DOMAIN products) < MaxProducts
    /\ Begin(p, [op |-> "CreateProduct", price |-> price, stock |-> stock], NoBulk, NoOrd)
    /\ IF PriceRejected(price)
         THEN Return(p, "NonPositive") /\ UNCHANGED products
         ELSE IF StockRejected(stock)
           THEN Return(p, "Negative") /\ UNCHANGED products
           ELSE \/ /\ products' = Insert(products, FreshId(DOMAIN products),
                                         ProductRow(price, stock))
                   /\ Return(p, "ok")
                \/ /\ UNCHANGED products
                   /\ Return(p, "UnexpectedStoreFailure")
    /\ UNCHANGED <<customers, orders, orderItems>>

(* An administrator edits a product's price through the admin site, whose  *)
(* form runs Product.clean().                                              *)
ChangePrice(id, price) ==
    /\ id \in DOMAIN products
    /\ price > 0
    /\ price # products[id].price
    /\ products' = [products EXCEPT ![id].price = price]
    /\ UNCHANGED <<customers, orders, orderItems, pc, call, result, bulk, ord, before>>

(* ------------------------- CreateOrder.mutate ------------------------- *)
NoDate == 0
DateInputs == {NoDate, 1}
CustomerIdInputs == 1..Cardinality(Emails)
ProductIdInputs == 1..MaxProducts
ProductIdLists == SeqsUpTo(ProductIdInputs, MaxItems)

(* The customer lookup left out: every id is taken to resolve.             *)
CustomerResolves_Unchecked(customer_id) == TRUE

(* Customer.objects.get(id=input.customer_id) finds a row.                 *)
CustomerResolves(customer_id) == \E c \in customers : c.id = customer_id

(* Customer.objects.get(id=...), then `if not input.product_ids`.          *)
CreateOrder_Customer(p, customer_id, product_ids, order_date) ==
    /\ Free(p)
    /\ Cardinality(DOMAIN orders) < MaxOrders
    /\ Begin(p, [op |-> "CreateOrder", customer_id |-> customer_id,
                 product_ids |-> product_ids, order_date |-> order_date], NoBulk, NoOrd)
    /\ IF ~CustomerResolves(customer_id)
         THEN Return(p, "InvalidCustomer")
         ELSE IF product_ids = << >>
           THEN Return(p, "NoProductsSelected")
           ELSE /\ pc' = [pc EXCEPT ![p] = "co_products"]
                /\ result' = [result EXCEPT ![p] = "none"]
    /\ UNCHANGED store

(* The loop replaced by one Product.objects.filter(id__in=...) whose count  *)
(* is compared with len(product_ids): an id met a second time is refused.  *)
CreateOrder_Product_DistinctCount(p) ==
    /\ pc[p] = "co_products"
    /\ LET i == Len(ord[p].selected) + 1
           prod_id == call[p].product_ids[i]
       IN  IF \/ prod_id \notin DOMAIN products
              \/ \E k \in 1..Len(ord[p].selected) : ord[p].selected[k].id = prod_id
             THEN /\ Return(p, "InvalidProduct")
                  /\ UNCHANGED ord
             ELSE /\ ord' = [ord EXCEPT ![p] =
                       [@ EXCEPT !.selected = Append(@, [id |-> prod_id,
                                                       price |-> products[prod_id].price]),
                                 !.total_amount = @ + products[prod_id].price]]
                  /\ pc' = [pc EXCEPT ![p] =
                       IF i = Len(call[p].product_ids) THEN "co_order" ELSE "co_products"]
                  /\ UNCHANGED result
    /\ UNCHANGED <<store, call, bulk, before>>

(* One turn of `for prod_id in input.product_ids`: Product.objects.get,    *)
(* the product object (with the price it has now) is kept and its price    *)
(* added to the total.                                                     *)
CreateOrder_Product(p) ==
    /\ pc[p] = "co_products"
    /\ LET i == Len(ord[p].selected) + 1
           prod_id == call[p].product_ids[i]
       IN  IF prod_id \notin DOMAIN products
             THEN /\ Return(p, "InvalidProduct")
                  /\ UNCHANGED ord
             ELSE /\ ord' = [ord EXCEPT ![p] =
                       [@ EXCEPT !.selected = Append(@, [id |-> prod_id,
                                                       price |-> products[prod_id].price]),
                                 !.total_amount = @ + products[prod_id].price]]
                  /\ pc' = [pc EXCEPT ![p] =
                       IF i = Len(call[p].product_ids) THEN "co_order" ELSE "co_products"]
                  /\ UNCHANGED result
    /\ UNCHANGED <<store, call, bulk, before>>

(* `input.order_date or timezone.now()`: crm/schema.py never imports       *)
(* timezone, so the right operand raises NameError when it is evaluated.   *)
OrderDate(order_date) ==
    IF order_date # NoDate THEN [raised |-> FALSE, value |-> order_date]
                           ELSE [raised |-> TRUE, value |-> NoDate]

(* Order.objects.create(...) in autocommit: the row is committed by the    *)
(* statement.  Any exception is re-raised by the except clause.            *)
CreateOrder_Order(p) ==
    /\ pc[p] = "co_order"
    /\ LET date == OrderDate(call[p].order_date)
           id == FreshId(DOMAIN orders)
       IN  IF date.raised
             THEN /\ Return(p, "NameError")
                  /\ UNCHANGED <<orders, ord>>
             ELSE \/ /\ orders' = Insert(orders, id,
                                    [customer |-> call[p].customer_id,
                                     order_date |-> date.value,
                                     total_amount |-> ord[p].total_amount])
                     /\ ord' = [ord EXCEPT ![p].order = id]
                     /\ pc' = [pc EXCEPT ![p] = "co_items"]
                     /\ UNCHANGED result
                  \/ /\ Return(p, "UnexpectedStoreFailure")
                     /\ UNCHANGED <<orders, ord>>
    /\ UNCHANGED <<customers, products, orderItems, call, bulk, before>>

(* The line item priced from the Product row as it is when the items are   *)
(* written, not from the product object read during validation.            *)
OrderItemRow_LivePrice(p, k) ==
    [id |-> Cardinality(orderItems) + k,
     order |-> ord[p].order,
     product |-> ord[p].selected[k].id,
     quantity |-> 1,
     price_at_order |-> products[ord[p].selected[k].id].price]

(* OrderItem(order=order, product=product, quantity=1,                    *)
(*           price_at_order=product.price) for the k-th selected product.  *)
OrderItemRow(p, k) ==
    [id |-> Cardinality(orderItems) + k,
     order |-> ord[p].order,
     product |-> ord[p].selected[k].id,
     quantity |-> 1,
     price_at_order |-> ord[p].selected[k].price]

(* OrderItem.objects.bulk_create(...): one statement, all rows or none.    *)
(* A failure is re-raised by the except clause; nothing undoes the Order   *)
(* row committed before.                                                   *)
CreateOrder_Items(p) ==
    /\ pc[p] = "co_items"
    /\ \/ /\ orderItems' = orderItems \cup
                 {OrderItemRow(p, k) : k \in 1..Len(ord[p].selected)}
          /\ Return(p, "ok")
       \/ /\ UNCHANGED orderItems
          /\ Return(p, "UnexpectedStoreFailure")
    /\ UNCHANGED <<customers, products, orders, call, bulk, ord, before>>

(* ------------------------------ readers ------------------------------ *)
ItemsOf(o) == {it \in orderItems : it.order = o}

(* The line item's price taken from its product: "price": oi.product.price *)
PriceAtOrder_Live(it) == products[it.product].price

(* OrderType.resolve_products: "price": oi.price_at_order                  *)
PriceAtOrder(it) == it.price_at_order

RECURSIVE SumAmount(_)
SumAmount(S) ==
    IF S = {} THEN 0
    ELSE LET it == CHOOSE x \in S : TRUE
         IN  PriceAtOrder(it) * it.quantity + SumAmount(S \ {it})

(* ------------------------- specifications ----------------------------- *)
CustomerNext(p, emails, phones, batches) ==
    \/ \E email \in emails, phone \in phones : CreateCustomer_Check(p, email, phone)
    \/ CreateCustomer_Create(p)
    \/ \E input \in batches : BulkCreateCustomers_Enter(p, input)
    \/ BulkCreateCustomers_Check(p)
    \/ BulkCreateCustomers_Create(p)
    \/ BulkCreateCustomers_Return(p)

ProductNext(p) ==
    \/ \E price \in PriceInputs, stock \in StockInputs : CreateProduct(p, price, stock)
    \/ \E id \in ProductIdInputs, price \in PriceInputs : ChangePrice(id, price)

OrderNext(p) ==
    \/ \E customer_id \in CustomerIdInputs, product_ids \in ProductIdLists,
          order_date \in DateInputs :
            CreateOrder_Customer(p, customer_id, product_ids, order_date)
    \/ CreateOrder_Product(p)
    \/ CreateOrder_Order(p)
    \/ CreateOrder_Items(p)

(* One request at a time, any mutation; price edits in between.            *)
Next ==
    \/ CustomerNext("p1", {"a@x.com"}, PhoneInputs, PlainBatches({"a@x.com"}))
    \/ ProductNext("p1")
    \/ OrderNext("p1")
Spec == Init /\ [][Next]_vars

(* Two concurrent requests creating customers.                             *)
NextRace == \E p \in Procs : CustomerNext(p, Emails, {NoPhone}, PlainBatches(Emails))
SpecRace == Init /\ [][NextRace]_vars

(* One bulk request at a time over records with and without phones.        *)
NextBulk == CustomerNext("p1", Emails, PhoneInputs, Batches)
SpecBulk == Init /\ [][NextBulk]_vars

(* ------------------------------- claims ------------------------------- *)
OrderCalls == {p \in Procs : pc[p] = "done" /\ call[p].op = "CreateOrder"}
OrderTablesAsBefore(p) ==
    orders = before[p].orders /\ orderItems = before[p].orderItems

(* C1: a CreateOrder call that fails leaves the Order and OrderItem tables *)
(* exactly as they were when the call began, also when the failure comes   *)
(* after the Order row has been written.                                   *)
C1_Claim_FailedOrderRolledBack ==
    \A p \in OrderCalls : result[p] # "ok" => OrderTablesAsBefore(p)

(* C2: a reader of the committed tables never sees an Order without        *)
(* OrderItems or with a total_amount that differs from the sum of          *)
(* price_at_order * quantity over its OrderItems.                          *)
C2_Claim_ReadersSeeWholeOrders ==
    \A o \in DOMAIN orders :
        ItemsOf(o) # {} /\ orders[o].total_amount = SumAmount(ItemsOf(o))

(* C3: a CreateOrder call whose customer id does not resolve, whose        *)
(* product id list is empty, or one of whose product ids does not resolve  *)
(* returns a validation failure and leaves the Order and OrderItem tables  *)
(* as they were when the call began.                                       *)
InvalidOrderInput(c) ==
    \/ ~\E r \in customers : r.id = c.customer_id
    \/ c.product_ids = << >>
    \/ \E i \in 1..Len(c.product_ids) : c.product_ids[i] \notin DOMAIN products

C3_InvalidOrderWritesNothing ==
    \A p \in OrderCalls :
        InvalidOrderInput(call[p]) =>
            /\ result[p] \in {"InvalidCustomer", "NoProductsSelected", "InvalidProduct"}
            /\ OrderTablesAsBefore(p)

(* A call failed on its second product id, after the first one resolved,   *)
(* with an Order already in the store.                                     *)
C3_Witness ==
    \E p \in OrderCalls :
        /\ result[p] = "InvalidProduct"
        /\ Len(ord[p].selected) = 1
        /\ orders # << >>

(* C4: no two committed Customer rows carry the same email.                *)
C4_EmailsUnique ==
    \A c1 \in customers, c2 \in customers : c1.email = c2.email => c1 = c2

(* A request has passed its existence check for an email and is about to   *)
(* write, and another request has committed that email in the meantime.    *)
C4_Witness ==
    \E p \in Procs, q \in Procs :
        /\ p # q
        /\ pc[p] = "cc_create"
        /\ pc[q] = "done"
        /\ call[q].op \in {"CreateCustomer", "BulkCreateCustomers"}
        /\ \E c \in customers : c.email = call[p].email

(* C5: every Customer that BulkCreateCustomers has created for a record is *)
(* a committed row from then on: while later records of the batch are      *)
(* evaluated and after the call has returned, whatever fails later.        *)
C5_Claim_CreatedAreCommitted ==
    \A p \in Procs :
        call[p].op = "BulkCreateCustomers" =>
            \A k \in 1..Len(bulk[p].created) : bulk[p].created[k] \in customers

(* C6: BulkCreateCustomers adds one Customer or one error per record, and  *)
(* a record is rejected by its evaluation only when its email matches a    *)
(* Customer in the store at that moment or its phone is malformed.         *)
BulkRejects(p) ==
    /\ pc[p] = "bulk_check"
    /\ pc'[p] = "bulk_check"
    /\ bulk'[p].idx = bulk[p].idx + 1

C6_Claim_RejectedOnlyIfIneligible ==
    /\ [](\A p \in Procs :
            call[p].op = "BulkCreateCustomers" /\ pc[p] = "done" =>
                Len(bulk[p].created) + Len(bulk[p].errors) = Len(call[p].input))
    /\ [][\A p \in Procs :
            BulkRejects(p) =>
                LET rec == call[p].input[bulk[p].idx]
                IN  \/ \E c \in customers \cup bulk[p].pending : c.email = rec.email
                    \/ rec.phone # NoPhone /\ ~PhoneMatches(rec.phone)]_vars

(* C7: after a successful CreateOrder the Order is persisted with one      *)
(* OrderItem per product id, each carrying the price read for it during    *)
(* the call, and total_amount is the sum of price_at_order * quantity.     *)
C7_OrderTotalMatchesItems ==
    \A p \in OrderCalls :
        result[p] = "ok" =>
            LET o == ord[p].order
                sel == ord[p].selected
            IN  /\ o \in DOMAIN orders
                /\ Cardinality(ItemsOf(o)) = Len(call[p].product_ids)
                /\ \A it \in ItemsOf(o) :
                       \E k \in 1..Len(sel) :
                           /\ it.product = sel[k].id
                           /\ it.price_at_order = sel[k].price
                           /\ it.quantity = 1
                /\ orders[o].total_amount = SumAmount(ItemsOf(o))

(* A successful call read the same product twice at two different prices:  *)
(* its price was changed while the call was running.                       *)
C7_Witness ==
    \E p \in OrderCalls :
        /\ result[p] = "ok"
        /\ \E it \in ItemsOf(ord[p].order), jt \in ItemsOf(ord[p].order) :
               it.product = jt.product /\ it.price_at_order # jt.price_at_order

(* C8: a CreateOrder call with an existing customer, a non-empty list of   *)
(* existing product ids and no orderDate succeeds (short of a failure of   *)
(* the store itself).                                                      *)
C8_Claim_DefaultDateSucceeds ==
    \A p \in OrderCalls :
        (~InvalidOrderInput(call[p]) /\ call[p].order_date = NoDate) =>
            result[p] \in {"ok", "UnexpectedStoreFailure"}

(* C9: no step changes the price_at_order of a persisted OrderItem or the  *)
(* total_amount of a persisted Order, or removes either.                   *)
C9_PersistedAmountsFrozen ==
    [][/\ \A it \in orderItems :
              \E jt \in orderItems' :
                  /\ jt.id = it.id
                  /\ jt.order = it.order
                  /\ PriceAtOrder(jt)' = PriceAtOrder(it)
       /\ \A o \in DOMAIN orders :
              /\ o \in DOMAIN orders'
              /\ orders'[o].total_amount = orders[o].total_amount]_vars

(* Two Orders are persisted and the price of an ordered product is no      *)
(* longer the price its OrderItem carries.                                 *)
C9_Witness ==
    /\ Cardinality(DOMAIN orders) = 2
    /\ \E it \in orderItems : it.price_at_order # products[it.product].price

(* C10: a CreateCustomer call with an email already in the store or a      *)
(* malformed phone, and a CreateProduct call with price <= 0 or stock < 0, *)
(* fail in their first step and write nothing; every Product row has       *)
(* price > 0 and stock >= 0.                                               *)
Enters(p) ==
    /\ Free(p)
    /\ call'[p] # call[p] \/ pc'[p] # pc[p] \/ result'[p] # result[p]

BadSingleInput(p) ==
    \/ /\ call'[p].op = "CreateCustomer"
       /\ \/ call'[p].phone # NoPhone /\ ~PhoneMatches(call'[p].phone)
          \/ \E c \in customers : c.email = call'[p].email
    \/ /\ call'[p].op = "CreateProduct"
       /\ call'[p].price <= 0 \/ call'[p].stock < 0

ResolvedProducts(c) == {c.product_ids[i] : i \in 1..Len(c.product_ids)} \cap DOMAIN products
PastProductLoop(p) ==
    /\ call[p].op = "CreateOrder"
    /\ pc[p] \in {"co_order", "co_items", "done"}
    /\ \E r \in customers : r.id = call[p].customer_id

C11_Claim_FewerDistinctRejected ==
    /\ \A p \in Procs :
          (PastProductLoop(p)
             /\ Cardinality(ResolvedProducts(call[p])) < Len(call[p].product_ids)) =>
                /\ pc[p] = "done"
                /\ result[p] = "InvalidProduct"
                /\ OrderTablesAsBefore(p)
    /\ \A it \in orderItems, jt \in orderItems :
          (it.order = jt.order /\ it.product = jt.product) => it = jt

(* C11 as amended: a CreateOrder call whose customer resolves ends in      *)
(* InvalidProduct, with the Order and OrderItem tables as they were when   *)
(* it began, exactly when some entry of its product id list does not       *)
(* resolve; a list that only repeats existing ids passes the product loop, *)
(* and a successful call has written one OrderItem per entry.              *)
C11_UnresolvedEntryRejected ==
    \A p \in Procs :
        PastProductLoop(p) =>
            LET ids == call[p].product_ids
                unresolved == \E i \in 1..Len(ids) : ids[i] \notin DOMAIN products
            IN  /\ unresolved =>
                      /\ pc[p] = "done"
                      /\ result[p] = "InvalidProduct"
                      /\ OrderTablesAsBefore(p)
                /\ ~unresolved => result[p] # "InvalidProduct"
                /\ (pc[p] = "done" /\ result[p] = "ok") =>
                      Cardinality(ItemsOf(ord[p].order)) = Len(ids)

(* A call was refused for an id that does not resolve while the store      *)
(* holds an Order, written by an earlier call whose list repeated an id,   *)
(* with two OrderItems for the same product.                               *)
C11_Witness ==
    /\ \E p \in OrderCalls : result[p] = "InvalidProduct"
    /\ \E it \in orderItems, jt \in orderItems :
          it # jt /\ it.order = jt.order /\ it.product = jt.product

=============================================================================
